---- MODULE Spec2Model ----
(***************************************************************************)
(* State-machine model of the GeneratePageModal composer                   *)
(* (src/unnamed/part_000, lines 110-393): the React state of the           *)
(* component, its event handlers, and the asynchronous continuations of    *)
(* handleFiles (preview batches) and handleGenerate (uploads, the caller's *)
(* onGenerate handler); and of the sign-in widget CustomGoogleOneTap       *)
(* (lines 15-79): its timer and its calls of the identity provider.        *)
(*                                                                         *)
(* Three specifications.  Spec is the composer with a modal file chooser   *)
(* (opening it and receiving its selection are one step); SpecChooser is   *)
(* the composer with a chooser that leaves the page live, so that a        *)
(* selection may arrive after other events, a Submit included; SpecOneTap  *)
(* is the widget.  The two components share no state: each specification   *)
(* leaves the other component as it starts.                                *)
(*                                                                         *)
(* Conventions.  JavaScript arrays are 0-based, TLA+ sequences 1-based:    *)
(* index i of the code is position i+1 here.  A prompt is a sequence of    *)
(* one-character strings so that String.prototype.trim can be computed.    *)
(* Every handler runs to its first await in one step (the UI event loop    *)
(* is single-threaded and React re-renders between two events, so a        *)
(* handler always closes over the committed state); what follows an await  *)
(* is a separate step that uses only the values captured before it.        *)
(*                                                                         *)
(* The caller is the environment.  It mounts the component closed, passes  *)
(* isRedrawMode and existingPrompt when it opens the composer and does not *)
(* change them while it is open, hides the composer when onClose is        *)
(* called, and may hide it when its onGenerate promise resolves.  Uploads, *)
(* previews and the handler settle at any later time, in any order.        *)
(***************************************************************************)
EXTENDS Integers, Sequences, FiniteSets, TLC

VARIABLES
    isOpen,          \* prop isOpen, owned by the caller            (line 111)
    isRedrawMode,    \* prop isRedrawMode                           (line 115)
    existingPrompt,  \* prop existingPrompt                         (line 116)
    prompt,          \* useState("")                                (line 118)
    uploadedFiles,   \* useState<File[]>([])                        (line 119)
    previews,        \* useState<string[]>([])                      (line 120)
    showPreview,     \* useState<number | null>(null)               (line 121)
    isGenerating,    \* useState(false)                             (line 122)
    pickerOpen,      \* the file chooser opened by fileInputRef.current.click()
    batches,         \* handleFiles calls suspended at the await of line 178
    subs,            \* handleGenerate calls: the ones in flight, and the ones
                     \* that returned since the last user event
    last             \* the operation that produced this state, and its outcome

\* The state of the sign-in widget CustomGoogleOneTap (lines 15-79).
VARIABLES
    isProduction,    \* process.env.NODE_ENV === 'production'       (line 19)
    googleClientId,  \* process.env.NEXT_PUBLIC_GOOGLE_CLIENT_ID    (line 18)
    mounted,         \* the widget is mounted
    mountedAt,       \* the time of its last mount, in ms
    now,             \* the clock, in ms
    timeout,         \* the deadline of the pending timer of line 28, if any
    cleared,         \* the deadline of the timer the last cleanup cancelled, if any
    google,          \* window.google is defined: the script has loaded
    initialized,     \* google.accounts.id.initialize has registered the callback
    prompts,         \* the calls of google.accounts.id.prompt since the last mount
    calls            \* the invocations of call(token), lines 59-71

composerVars == <<isOpen, isRedrawMode, existingPrompt, prompt, uploadedFiles,
                  previews, showPreview, isGenerating, pickerOpen, batches, subs,
                  last>>

widgetVars == <<isProduction, googleClientId, mounted, mountedAt, now, timeout,
                cleared, google, initialized, prompts, calls>>

vars == <<composerVars, widgetVars>>

\* The React state of the component.
compState == <<prompt, uploadedFiles, previews, showPreview, isGenerating>>

----------------------------------------------------------------------------
(* Bounds of the model *)

\* Largest number of files offered by one file-input change event.
MaxSel == 3
\* Largest number of handleFiles calls suspended at their await at one time.
MaxBatches == 1

----------------------------------------------------------------------------
(* Values *)

\* An optional value (T | null, T | undefined) is a sequence of at most one
\* element: None is null or undefined, Some(v) is the value v.
None == <<>>
Some(v) == <<v>>

\* The slot of a promise that has not settled yet.
Pending == <<"pending">>

\* A null FileList (e.target.files is nullable).
NullFiles == <<"null">>

\* File handles the user can select; "x" is one the validation rejects.
Files == {"a", "b", "x"}

\* Texts the user types into the prompt: " " and "b ".
Prompts == {<<" ">>, <<"b", " ">>}

\* The props the caller opens the composer with: <<isRedrawMode, existingPrompt>>.
OpenProps == {<<FALSE, <<"a">>>>, <<TRUE, <<"a">>>>}

\* What an upload or the handler can reject with: an Error object with a
\* message, or a value that is not an Error.
Errors == {[isError |-> TRUE, message |-> "boom"],
           [isError |-> FALSE, message |-> "n/a"]}

FileLists == UNION {[1..n -> Files] : n \in 0..MaxSel}

Min(a, b) == IF a < b THEN a ELSE b

\* Array.prototype.slice(start, end) on a sequence (0-based, end exclusive).
Slice(s, start, end) == SubSeq(s, start + 1, Min(end, Len(s)))

\* Array.prototype.filter((_, i) => i !== index), index 0-based.
FilterOutIndex(s, index) ==
    LET keep == {j \in 1..Len(s) : j - 1 # index}
        pos(n) == CHOOSE j \in keep : Cardinality({k \in keep : k < j}) = n - 1
    IN  [n \in 1..Cardinality(keep) |-> s[pos(n)]]

RECURSIVE TrimStart(_)
TrimStart(s) == IF s # <<>> /\ Head(s) = " " THEN TrimStart(Tail(s)) ELSE s

RECURSIVE TrimEnd(_)
TrimEnd(s) ==
    IF s # <<>> /\ s[Len(s)] = " " THEN TrimEnd(SubSeq(s, 1, Len(s) - 1)) ELSE s

\* String.prototype.trim
Trim(s) == TrimEnd(TrimStart(s))

\* validateFileForUpload(file, true): the policy lives in lib/file-utils.
validateFileForUpload(file) ==
    IF file = "x" THEN [valid |-> FALSE, error |-> Some("unsupported file")]
                  ELSE [valid |-> TRUE, error |-> None]

\* generateFilePreview(file): the renderable thumbnail of that file.
generateFilePreview(file) == <<"preview", file>>

\* uploadToS3(file) resolves to {url}: the public URL of that file.
UrlOf(file) == <<"url", file>>

----------------------------------------------------------------------------
(* The log of submissions *)

\* A handleGenerate call that has returned: its try block completed or its
\* catch block ran.  Uploads it started may still be outstanding; what they
\* settle with is ignored.
Returned(sub) == sub.pc \in {"done", "failed"}

\* The submissions in flight.
Prune(t) == SelectSeq(t, LAMBDA sub : ~Returned(sub))

\* A user event drops the returned submissions from the log, with the
\* uploads they left outstanding.
Forget == subs' = Prune(subs)

----------------------------------------------------------------------------
(* Initial state: the component is mounted with the dialog closed. *)

\* The record of the last operation: its name, a number about its argument
\* and a number about its outcome (0 where there is nothing to record).
Did(op, arg, out) == [op |-> op, arg |-> arg, out |-> out]

\* The widget before it is mounted, in a deployment with the given
\* environment.
InitWidget(production, clientId) ==
    /\ isProduction = production
    /\ googleClientId = clientId
    /\ mounted = FALSE
    /\ mountedAt = 0
    /\ now = 0
    /\ timeout = None
    /\ cleared = None
    /\ google = FALSE
    /\ initialized = FALSE
    /\ prompts = <<>>
    /\ calls = <<>>

\* The composer is specified on a page that leaves the widget aside.
WidgetOff == InitWidget(FALSE, None)

Init ==
    /\ isOpen = FALSE
    /\ isRedrawMode = FALSE
    /\ existingPrompt = <<>>
    /\ prompt = <<>>
    /\ uploadedFiles = <<>>
    /\ previews = <<>>
    /\ showPreview = None
    /\ isGenerating = FALSE
    /\ pickerOpen = FALSE
    /\ batches = <<>>
    /\ subs = <<>>
    /\ last = Did("init", 0, 0)
    /\ WidgetOff

----------------------------------------------------------------------------
(* Open: the caller turns isOpen to true; the reset effect runs. *)

\* The body of the effect of lines 128-136, for isOpen = true.
ResetForm(redraw, existing) ==
    /\ prompt' = IF redraw THEN existing ELSE <<>>
    /\ uploadedFiles' = <<>>
    /\ previews' = <<>>
    /\ showPreview' = None
    /\ isGenerating' = FALSE

\* The caller shows the composer, in creation or in redraw mode.
Open(redraw, existing) ==
    /\ ~isOpen
    /\ isOpen' = TRUE
    /\ isRedrawMode' = redraw
    /\ existingPrompt' = existing
    /\ ResetForm(redraw, existing)
    /\ last' = Did("open", 0, 0)
    /\ Forget
    /\ UNCHANGED <<pickerOpen, batches>>
    /\ UNCHANGED widgetVars

----------------------------------------------------------------------------
(* The prompt textarea, lines 261-271 *)

SetPrompt(value) ==
    /\ isOpen
    /\ ~isGenerating                       \* disabled={isGenerating}
    /\ value # prompt
    /\ prompt' = value
    /\ last' = Did("setPrompt", 0, 0)
    /\ Forget
    /\ UNCHANGED <<isOpen, isRedrawMode, existingPrompt, uploadedFiles, previews,
                   showPreview, isGenerating, pickerOpen, batches>>
    /\ UNCHANGED widgetVars

----------------------------------------------------------------------------
(* Add files: handleFiles, lines 148-182 *)

\* Line 169-171: the candidates that pass validation, in selection order.
ValidFilesOf(filesArray) ==
    SelectSeq(filesArray, LAMBDA file : validateFileForUpload(file).valid)

\* Lines 158-167: one toast per candidate that is invalid and has an error.
InvalidToasts(filesArray) ==
    Cardinality({i \in 1..Len(filesArray) :
        /\ ~validateFileForUpload(filesArray[i]).valid
        /\ validateFileForUpload(filesArray[i]).error # None})

\* Line 175 without the truncation.
TotalFilesNoSlice(validFiles) == uploadedFiles \o validFiles

\* Line 175 with the new files ahead of the existing ones.
TotalFilesNewFirst(validFiles) == Slice(validFiles \o uploadedFiles, 0, 2)

\* Line 175: const totalFiles = [...uploadedFiles, ...validFiles].slice(0, 2)
TotalFiles(validFiles) == Slice(uploadedFiles \o validFiles, 0, 2)

\* handleFiles that gives up the whole call when a candidate is invalid.
handleFilesAbortOnInvalid(newFiles) ==
    IF newFiles = NullFiles \/ Len(ValidFilesOf(newFiles)) # Len(newFiles)
                           \/ Len(newFiles) = 0
    THEN UNCHANGED <<uploadedFiles, batches>>
    ELSE /\ uploadedFiles' = TotalFiles(newFiles)
         /\ batches' = Append(batches, TotalFiles(newFiles))

\* handleFiles up to its await: lines 149-178.
handleFiles(newFiles) ==
    IF newFiles = NullFiles
    THEN UNCHANGED <<uploadedFiles, batches>>                       \* line 149
    ELSE LET validFiles == ValidFilesOf(newFiles)
         IN  IF Len(validFiles) = 0
             THEN UNCHANGED <<uploadedFiles, batches>>              \* line 173
             ELSE /\ uploadedFiles' = TotalFiles(validFiles)        \* line 176
                  /\ batches' = Append(batches, TotalFiles(validFiles))

\* Would handleFiles(newFiles) start a preview batch?
StartsBatch(newFiles) == newFiles # NullFiles /\ Len(ValidFilesOf(newFiles)) > 0

\* Lines 303-326: a control that opens the file picker is rendered and enabled.
AddButtonEnabled ==
    /\ ~isGenerating
    /\ (Len(previews) > 0 => Len(uploadedFiles) < 2)

\* What the change event of the file input does, line 336.
OnFileInputChange(newFiles) ==
    /\ StartsBatch(newFiles) => Len(batches) < MaxBatches
    /\ handleFiles(newFiles)
    /\ last' = IF newFiles = NullFiles
               THEN Did("handleFiles", 0, 0)
               ELSE Did("handleFiles", Len(ValidFilesOf(newFiles)),
                        InvalidToasts(newFiles))
    /\ Forget
    /\ UNCHANGED <<isOpen, isRedrawMode, existingPrompt, prompt, previews,
                   showPreview, isGenerating>>
    /\ UNCHANGED widgetVars

\* The user picks files with a modal file chooser: a click on an add control
\* (lines 303-326) opens it, and the page handles no other event until the
\* chooser has delivered the selection.
FileInputChange(newFiles) ==
    /\ isOpen
    /\ AddButtonEnabled
    /\ OnFileInputChange(newFiles)
    /\ UNCHANGED pickerOpen

\* The same with a chooser that leaves the page live.  A click on an add
\* control, lines 305-307 and 317-319, opens the chooser of the hidden input.
ClickAdd ==
    /\ isOpen
    /\ AddButtonEnabled
    /\ ~pickerOpen
    /\ pickerOpen' = TRUE
    /\ last' = Did("clickAdd", 0, 0)
    /\ Forget
    /\ UNCHANGED <<isOpen, isRedrawMode, existingPrompt, prompt, uploadedFiles,
                   previews, showPreview, isGenerating, batches>>
    /\ UNCHANGED widgetVars

\* The chooser closes and the input fires its change event (line 336), with
\* an empty selection when the user chose nothing.  The input lives in the
\* dialog content, so a closed composer has no chooser.
ChooserChange(newFiles) ==
    /\ isOpen
    /\ pickerOpen
    /\ pickerOpen' = FALSE
    /\ OnFileInputChange(newFiles)

\* Lines 178-181: Promise.all of the previews of the batch, in the order of
\* the batch, stored by setPreviews.
NewPreviews(totalFiles) ==
    [i \in 1..Len(totalFiles) |-> generateFilePreview(totalFiles[i])]

\* The await of line 178 resolves for the k-th suspended handleFiles call.
PreviewsResolve(k) ==
    /\ k \in 1..Len(batches)
    /\ previews' = NewPreviews(batches[k])                          \* line 181
    /\ batches' = FilterOutIndex(batches, k - 1)
    /\ last' = Did("previewsResolved", 0, 0)
    /\ UNCHANGED <<isOpen, isRedrawMode, existingPrompt, prompt, uploadedFiles,
                   showPreview, isGenerating, pickerOpen, subs>>
    /\ UNCHANGED widgetVars

----------------------------------------------------------------------------
(* Remove: removeFile, lines 184-193 *)

\* removeFile with the previews left as they are.
removeFileKeepPreviews(index) ==
    /\ uploadedFiles' = FilterOutIndex(uploadedFiles, index)
    /\ previews' = previews
    /\ showPreview' = None

removeFile(index) ==
    /\ uploadedFiles' = FilterOutIndex(uploadedFiles, index)        \* 185, 187
    /\ previews' = FilterOutIndex(previews, index)                  \* 186, 188
    /\ showPreview' = None                                          \* 189

\* The remove button of thumbnail `index` (0-based), lines 291-300.
ClickRemove(index) ==
    /\ isOpen
    /\ index \in 0..(Len(previews) - 1)    \* one button per preview, line 279
    /\ ~isGenerating                       \* disabled={isGenerating}
    /\ removeFile(index)
    /\ last' = Did("removeFile", index, 0)
    /\ Forget
    /\ UNCHANGED <<isOpen, isRedrawMode, existingPrompt, prompt, isGenerating,
                   pickerOpen, batches>>
    /\ UNCHANGED widgetVars

----------------------------------------------------------------------------
(* Preview viewer, lines 281-283 and 369-390 *)

\* A viewer that is rendered whenever an index is set.
ViewerShownOnAnyIndex == showPreview # None

\* Line 369: showPreview !== null && previews[showPreview]
ViewerShown ==
    /\ showPreview # None
    /\ showPreview[1] \in 0..(Len(previews) - 1)

ClickThumbnail(index) ==
    /\ isOpen
    /\ index \in 0..(Len(previews) - 1)
    /\ showPreview' = Some(index)
    /\ last' = Did("setShowPreview", 0, 0)
    /\ Forget
    /\ UNCHANGED <<isOpen, isRedrawMode, existingPrompt, prompt, uploadedFiles,
                   previews, isGenerating, pickerOpen, batches>>
    /\ UNCHANGED widgetVars

CloseViewer ==
    /\ ViewerShown
    /\ showPreview' = None
    /\ last' = Did("closeViewer", 0, 0)
    /\ Forget
    /\ UNCHANGED <<isOpen, isRedrawMode, existingPrompt, prompt, uploadedFiles,
                   previews, isGenerating, pickerOpen, batches>>
    /\ UNCHANGED widgetVars

----------------------------------------------------------------------------
(* Submit: handleGenerate, lines 195-222 *)

\* Promise.all that stores a fulfilment value in the next free slot, that is
\* in completion order.
ResolveElementInCompletionOrder(values, i, v) ==
    LET free == CHOOSE j \in 1..Len(values) :
                    /\ values[j] = Pending
                    /\ \A k \in 1..(j - 1) : values[k] # Pending
    IN  [values EXCEPT ![free] = v]

\* Lines 201-203: Promise.all stores the fulfilment value of its i-th input
\* promise at position i of the result, whatever the order of completion.
PromiseAllResolveElement(values, i, v) == [values EXCEPT ![i] = v]

\* A combinator that is fulfilled by its first fulfilled input.
PromiseAnyFulfilled(values) == \E j \in 1..Len(values) : values[j] # Pending

\* Lines 201-203: Promise.all is fulfilled when every input is.
PromiseAllFulfilled(values) == \A j \in 1..Len(values) : values[j] # Pending

\* Line 207: characterUrls.length > 0 ? characterUrls : undefined
CharacterUrlsArg(characterUrls) ==
    IF Len(characterUrls) > 0 THEN Some(characterUrls) ELSE None

\* Lines 205-208: the call of onGenerate, once Promise.all has fulfilled.
InvokeOnGenerate(sub) ==
    [sub EXCEPT !.pc = "handler",
                !.calls = Append(@, [prompt |-> sub.prompt,
                                     characterUrls |-> CharacterUrlsArg(sub.values)])]

\* Lines 196-203: the state of a handleGenerate call at its first await; the
\* call closes over prompt and uploadedFiles of the render it was made in, and
\* has started one uploadToS3 per attachment (outstanding, 1-based; rejected
\* collects the ones that rejected); toast collects the notifications of the
\* catch block.
\* Promise.all of no promise is fulfilled at once, with [].
NewSubmission ==
    LET sub == [prompt      |-> prompt,
                files       |-> uploadedFiles,
                outstanding |-> 1..Len(uploadedFiles),
                rejected    |-> {},
                values      |-> [i \in 1..Len(uploadedFiles) |-> Pending],
                pc          |-> "uploading",
                calls       |-> <<>>,
                toast       |-> <<>>]
    IN  IF Len(uploadedFiles) = 0 THEN InvokeOnGenerate(sub) ELSE sub

handleGenerate ==
    IF Trim(prompt) = <<>>
    THEN Forget                                                     \* line 196
    ELSE /\ isGenerating' = TRUE                                    \* line 197
         /\ subs' = Append(Prune(subs), NewSubmission)

\* A submit button that is disabled on an empty prompt only.
SubmitButtonDisabledOnEmptyOnly == Trim(prompt) = <<>>

\* Line 350: disabled={!prompt.trim() || isGenerating}
SubmitButtonDisabled == Trim(prompt) = <<>> \/ isGenerating

\* A click on the submit button, lines 348-351.
ClickGenerate ==
    /\ isOpen
    /\ ~SubmitButtonDisabled
    /\ handleGenerate
    /\ last' = Did("clickGenerate", 0, 1)
    /\ UNCHANGED <<isOpen, isRedrawMode, existingPrompt, prompt, uploadedFiles,
                   previews, showPreview, pickerOpen, batches>>
    /\ UNCHANGED widgetVars

\* Line 145: { disabled: !isOpen || isGenerating }
ShortcutDisabled == ~isOpen \/ isGenerating

\* Line 141: the guard of the shortcut's callback.
ShortcutGuard == isOpen /\ ~isGenerating /\ Trim(prompt) # <<>>

\* A shortcut that looks at the prompt only.
ShortcutFiresOnPrompt == Trim(prompt) # <<>>

\* Lines 139-146: the hook runs the callback unless disabled, and the
\* callback calls handleGenerate under its guard.
ShortcutFires == ~ShortcutDisabled /\ ShortcutGuard

\* The key combination is pressed, lines 139-146.  last.out = 1 when the
\* callback called handleGenerate.
KeyboardShortcut ==
    /\ IF ShortcutFires
       THEN /\ handleGenerate
            /\ last' = Did("shortcut", 0, 1)
       ELSE /\ Forget
            /\ UNCHANGED isGenerating
            /\ last' = Did("shortcut", 0, 0)
    /\ UNCHANGED <<isOpen, isRedrawMode, existingPrompt, prompt, uploadedFiles,
                   previews, showPreview, pickerOpen, batches>>
    /\ UNCHANGED widgetVars

\* Lines 213-216: error instanceof Error ? error.message : the fallback.
Fallback == "Failed to generate page. Please try again."
ToastDescription(error) == IF error.isError THEN error.message ELSE Fallback

\* A catch block that reports and leaves isGenerating as it is.
CatchBlockNoIdle(t, s, error) ==
    /\ subs' = [t EXCEPT ![s].pc = "failed",
                         ![s].toast = Append(@, ToastDescription(error))]
    /\ isGenerating' = isGenerating

\* Lines 209-221: the catch block of submission s of the log t.
CatchBlock(t, s, error) ==
    /\ subs' = [t EXCEPT ![s].pc = "failed",
                         ![s].toast = Append(@, ToastDescription(error))]
    /\ isGenerating' = FALSE                                        \* line 220

\* uploadToS3 of attachment i (1-based) of submission s resolves, lines 201-208.
UploadResolves(s, i) ==
    /\ s \in 1..Len(subs)
    /\ i \in subs[s].outstanding
    /\ LET sub == [subs[s] EXCEPT !.outstanding = @ \ {i}]
           values == PromiseAllResolveElement(sub.values, i, UrlOf(sub.files[i]))
           next == [sub EXCEPT !.values = values]
       IN  subs' = [subs EXCEPT ![s] =
               IF sub.pc # "uploading"
               THEN sub                       \* Promise.all has rejected already
               ELSE IF PromiseAllFulfilled(values)
                    THEN InvokeOnGenerate(next)
                    ELSE next]
    /\ last' = Did("uploadResolved", i - 1, 0)
    /\ UNCHANGED <<isOpen, isRedrawMode, existingPrompt, prompt, uploadedFiles,
                   previews, showPreview, isGenerating, pickerOpen, batches>>
    /\ UNCHANGED widgetVars

\* uploadToS3 of attachment i (1-based) of submission s rejects: Promise.all
\* rejects with the first rejection and the catch block runs; a later
\* rejection finds the promise settled.
UploadRejects(s, i, error) ==
    /\ s \in 1..Len(subs)
    /\ i \in subs[s].outstanding
    /\ LET t == [subs EXCEPT ![s].outstanding = @ \ {i},
                             ![s].rejected = @ \cup {i}]
       IN  IF subs[s].pc = "uploading"
           THEN CatchBlock(t, s, error)
           ELSE subs' = t /\ UNCHANGED isGenerating
    /\ last' = Did("uploadRejected", i - 1, 0)
    /\ UNCHANGED <<isOpen, isRedrawMode, existingPrompt, prompt, uploadedFiles,
                   previews, showPreview, pickerOpen, batches>>
    /\ UNCHANGED widgetVars

\* The promise of onGenerate resolves for submission s (line 205); the caller
\* owns navigation and may have closed the composer.  Nothing follows the
\* await in the try block.
HandlerResolves(s, close) ==
    /\ s \in 1..Len(subs)
    /\ subs[s].pc = "handler"
    /\ subs' = [subs EXCEPT ![s].pc = "done"]
    /\ isOpen' = (isOpen /\ ~close)
    /\ pickerOpen' = (pickerOpen /\ isOpen')
    /\ last' = Did("handlerResolved", 0, 0)
    /\ UNCHANGED <<isRedrawMode, existingPrompt, prompt, uploadedFiles, previews,
                   showPreview, isGenerating, batches>>
    /\ UNCHANGED widgetVars

\* The promise of onGenerate rejects for submission s.
HandlerRejects(s, error) ==
    /\ s \in 1..Len(subs)
    /\ subs[s].pc = "handler"
    /\ CatchBlock(subs, s, error)
    /\ last' = Did("handlerRejected", 0, 0)
    /\ UNCHANGED <<isOpen, isRedrawMode, existingPrompt, prompt, uploadedFiles,
                   previews, showPreview, pickerOpen, batches>>
    /\ UNCHANGED widgetVars

----------------------------------------------------------------------------
(* Dismiss: handleOpenChange, lines 224-230 *)

\* handleOpenChange without the guard of lines 226-228.
handleOpenChangeNoGuard(open) ==
    /\ isOpen' = FALSE
    /\ last' = Did("handleOpenChange", 0, 1)

\* last.out = 1 when onClose was invoked; the caller's onClose hides the
\* composer.
handleOpenChange(open) ==
    IF ~open /\ isGenerating
    THEN /\ UNCHANGED isOpen                                        \* line 227
         /\ last' = Did("handleOpenChange", 0, 0)
    ELSE /\ isOpen' = FALSE                                         \* line 229
         /\ last' = Did("handleOpenChange", 0, 1)

\* The dialog asks to close (Escape, click outside, close control).
RequestDismiss ==
    /\ isOpen
    /\ handleOpenChange(FALSE)
    /\ pickerOpen' = (pickerOpen /\ isOpen')
    /\ Forget
    /\ UNCHANGED <<isRedrawMode, existingPrompt, prompt, uploadedFiles, previews,
                   showPreview, isGenerating, batches>>
    /\ UNCHANGED widgetVars

----------------------------------------------------------------------------
(* The specification *)

Next ==
    \/ \E props \in OpenProps : Open(props[1], props[2])
    \/ \E value \in Prompts : SetPrompt(value)
    \/ \E newFiles \in FileLists \cup {NullFiles} : FileInputChange(newFiles)
    \/ \E k \in 1..Len(batches) : PreviewsResolve(k)
    \/ \E index \in 0..(Len(previews) - 1) : ClickRemove(index)
    \/ \E index \in 0..(Len(previews) - 1) : ClickThumbnail(index)
    \/ CloseViewer
    \/ ClickGenerate
    \/ KeyboardShortcut
    \/ \E s \in 1..Len(subs) : \E i \in subs[s].outstanding : UploadResolves(s, i)
    \/ \E s \in 1..Len(subs) : \E i \in subs[s].outstanding, error \in Errors :
           UploadRejects(s, i, error)
    \/ \E s \in 1..Len(subs), close \in BOOLEAN : HandlerResolves(s, close)
    \/ \E s \in 1..Len(subs), error \in Errors : HandlerRejects(s, error)
    \/ RequestDismiss

Spec == Init /\ [][Next]_vars

\* The composer with a file chooser that does not block the page: the
\* selection may arrive after any number of other events.
NextChooser ==
    \/ \E props \in OpenProps : Open(props[1], props[2])
    \/ \E value \in Prompts : SetPrompt(value)
    \/ ClickAdd
    \/ \E newFiles \in FileLists \cup {NullFiles} : ChooserChange(newFiles)
    \/ \E k \in 1..Len(batches) : PreviewsResolve(k)
    \/ \E index \in 0..(Len(previews) - 1) : ClickRemove(index)
    \/ \E index \in 0..(Len(previews) - 1) : ClickThumbnail(index)
    \/ CloseViewer
    \/ ClickGenerate
    \/ KeyboardShortcut
    \/ \E s \in 1..Len(subs) : \E i \in subs[s].outstanding : UploadResolves(s, i)
    \/ \E s \in 1..Len(subs) : \E i \in subs[s].outstanding, error \in Errors :
           UploadRejects(s, i, error)
    \/ \E s \in 1..Len(subs), close \in BOOLEAN : HandlerResolves(s, close)
    \/ \E s \in 1..Len(subs), error \in Errors : HandlerRejects(s, error)
    \/ RequestDismiss

SpecChooser == Init /\ [][NextChooser]_vars

----------------------------------------------------------------------------
(* The sign-in widget: CustomGoogleOneTap, lines 15-79 *)

\* Line 28: the delay of the timer, in ms.
Delay == 2000

\* The clock stops at MaxTime ms; it advances in steps of 1000 ms.
MaxTime == 4000
\* Largest number of credentials the identity provider hands to the callback.
MaxCalls == 2

\* The environments of a deployment: NODE_ENV and the client identifier.
ClientIds == {None, Some("client-id")}

\* Tokens the identity provider hands over.
Tokens == {"t1", "t2"}

\* Line 22: the widget renders nothing and registers no effect.
Enabled == isProduction /\ googleClientId # None

\* The widget of the given deployment, before it is mounted; the composer
\* is left closed.
InitOneTap ==
    /\ isOpen = FALSE
    /\ isRedrawMode = FALSE
    /\ existingPrompt = <<>>
    /\ prompt = <<>>
    /\ uploadedFiles = <<>>
    /\ previews = <<>>
    /\ showPreview = None
    /\ isGenerating = FALSE
    /\ pickerOpen = FALSE
    /\ batches = <<>>
    /\ subs = <<>>
    /\ last = Did("init", 0, 0)
    /\ \E production \in BOOLEAN, clientId \in ClientIds :
           InitWidget(production, clientId)

\* The widget is mounted: lines 22-32.  The effect runs once per mount (its
\* dependency list is empty) and arms the timer.
Mount ==
    /\ ~mounted
    /\ mounted' = TRUE
    /\ mountedAt' = now
    /\ prompts' = <<>>
    /\ timeout' = IF Enabled THEN Some(now + Delay) ELSE None   \* lines 22, 28
    /\ cleared' = None
    /\ UNCHANGED <<isProduction, googleClientId, now, google, initialized, calls>>
    /\ UNCHANGED composerVars

\* A cleanup that leaves the timer armed.
CleanupKeepsTimer ==
    /\ timeout' = timeout
    /\ cleared' = timeout

\* Lines 29-31: the cleanup of the effect cancels the timer, if it is pending.
Cleanup ==
    /\ timeout' = None                                           \* clearTimeout
    /\ cleared' = timeout

\* The widget is torn down.
Unmount ==
    /\ mounted
    /\ mounted' = FALSE
    /\ Cleanup
    /\ UNCHANGED <<isProduction, googleClientId, mountedAt, now, google,
                   initialized, prompts, calls>>
    /\ UNCHANGED composerVars

\* Time passes.
Tick ==
    /\ now < MaxTime
    /\ now' = now + 1000
    /\ UNCHANGED <<isProduction, googleClientId, mounted, mountedAt, timeout,
                   cleared, google, initialized, prompts, calls>>
    /\ UNCHANGED composerVars

\* The script of line 75 has loaded and defined window.google.
ScriptLoads ==
    /\ mounted
    /\ Enabled
    /\ ~google
    /\ google' = TRUE
    /\ UNCHANGED <<isProduction, googleClientId, mounted, mountedAt, now, timeout,
                   cleared, initialized, prompts, calls>>
    /\ UNCHANGED composerVars

\* oneTap that shows the prompt twice.
oneTapPromptsTwice ==
    IF google
    THEN /\ initialized' = TRUE
         /\ prompts' = prompts \o <<[at |-> now, mounted |-> mounted],
                                    [at |-> now, mounted |-> mounted]>>
    ELSE UNCHANGED <<initialized, prompts>>

\* Lines 34-57: oneTap registers the callback and shows the prompt, if the
\* script has loaded.
oneTap ==
    IF google
    THEN /\ initialized' = TRUE                                  \* line 37
         /\ prompts' = Append(prompts, [at |-> now, mounted |-> mounted])  \* 46
    ELSE UNCHANGED <<initialized, prompts>>                      \* line 36

\* The timer of line 28 fires, at its deadline or later.
TimerFires ==
    /\ timeout # None
    /\ now >= timeout[1]
    /\ timeout' = None
    /\ oneTap
    /\ UNCHANGED <<isProduction, googleClientId, mounted, mountedAt, now, cleared,
                   google, calls>>
    /\ UNCHANGED composerVars

\* Lines 39-42: the identity provider hands a credential to the callback,
\* which calls call(token); the call runs to its first await.
Credential(token) ==
    /\ initialized
    /\ Len(calls) < MaxCalls
    /\ calls' = Append(calls, [token    |-> token,
                               pc       |-> "authenticating",   \* line 61
                               rejected |-> "none",
                               handled  |-> 0,
                               pushes   |-> <<>>,
                               errors   |-> <<>>])
    /\ UNCHANGED <<isProduction, googleClientId, mounted, mountedAt, now, timeout,
                   cleared, google, initialized, prompts>>
    /\ UNCHANGED composerVars

\* A catch block that swallows the error and stays on the page.
CatchSwallows(c, what) ==
    calls' = [calls EXCEPT ![c].pc = "failed",
                           ![c].rejected = what]

\* Lines 68-70: the catch block of call number c, entered by the rejection
\* of `what`.  handled counts the calls of clerk.handleGoogleOneTapCallback,
\* pushes lists the routes of router.push, errors the messages shown to the
\* user.
Catch(c, what) ==
    calls' = [calls EXCEPT ![c].pc = "failed",
                           ![c].rejected = what,
                           ![c].pushes = Append(@, "/")]         \* line 69

\* clerk.authenticateWithGoogleOneTap resolves: line 65 is reached and
\* clerk.handleGoogleOneTapCallback is called.
AuthResolves(c) ==
    /\ c \in 1..Len(calls)
    /\ calls[c].pc = "authenticating"
    /\ calls' = [calls EXCEPT ![c].pc = "completing", ![c].handled = @ + 1]
    /\ UNCHANGED <<isProduction, googleClientId, mounted, mountedAt, now, timeout,
                   cleared, google, initialized, prompts>>
    /\ UNCHANGED composerVars

\* clerk.authenticateWithGoogleOneTap rejects.
AuthRejects(c) ==
    /\ c \in 1..Len(calls)
    /\ calls[c].pc = "authenticating"
    /\ Catch(c, "authenticate")
    /\ UNCHANGED <<isProduction, googleClientId, mounted, mountedAt, now, timeout,
                   cleared, google, initialized, prompts>>
    /\ UNCHANGED composerVars

\* clerk.handleGoogleOneTapCallback resolves: the try block is complete.
CallbackResolves(c) ==
    /\ c \in 1..Len(calls)
    /\ calls[c].pc = "completing"
    /\ calls' = [calls EXCEPT ![c].pc = "done"]
    /\ UNCHANGED <<isProduction, googleClientId, mounted, mountedAt, now, timeout,
                   cleared, google, initialized, prompts>>
    /\ UNCHANGED composerVars

\* clerk.handleGoogleOneTapCallback rejects.
CallbackRejects(c) ==
    /\ c \in 1..Len(calls)
    /\ calls[c].pc = "completing"
    /\ Catch(c, "callback")
    /\ UNCHANGED <<isProduction, googleClientId, mounted, mountedAt, now, timeout,
                   cleared, google, initialized, prompts>>
    /\ UNCHANGED composerVars

NextOneTap ==
    \/ Mount
    \/ Unmount
    \/ Tick
    \/ ScriptLoads
    \/ TimerFires
    \/ \E token \in Tokens : Credential(token)
    \/ \E c \in 1..Len(calls) : AuthResolves(c)
    \/ \E c \in 1..Len(calls) : AuthRejects(c)
    \/ \E c \in 1..Len(calls) : CallbackResolves(c)
    \/ \E c \in 1..Len(calls) : CallbackRejects(c)

SpecOneTap == InitOneTap /\ [][NextOneTap]_vars

----------------------------------------------------------------------------
(* Properties *)

\* The number of submissions in flight.
InFlight(t) == Len(Prune(t))

\* The operations that are continuations of earlier work, not user events.
AsyncOps == {"previewsResolved", "uploadResolved", "uploadRejected",
             "handlerResolved", "handlerRejected"}

\* C1: in every reachable state the attachment list holds at most 2 files,
\* however many valid files were offered in one call or across calls.
C1_AtMostTwoAttachments == Len(uploadedFiles) <= 2

\* C1 witness: one call offered three valid files and the list holds two.
C1_Witness ==
    /\ last.op = "handleFiles"
    /\ last.arg = 3
    /\ Len(uploadedFiles) = 2

\* C2: in every reachable state previews has the length of the attachment
\* list and previews[i] is the preview of attachments[i].
C2_PreviewsMatchAttachments ==
    /\ Len(previews) = Len(uploadedFiles)
    /\ \A i \in 1..Len(previews) : previews[i] = generateFilePreview(uploadedFiles[i])

\* C3: once every pending preview batch has resolved, the previews are those
\* of the latest attachment list.
C3_LatestListWins ==
    batches = <<>> => C2_PreviewsMatchAttachments

\* C4: a submission one of whose uploads rejected never invokes onGenerate,
\* has surfaced an error notification, and has left the composer idle.
C4_UploadRejectionAborts ==
    \A s \in 1..Len(subs) :
        subs[s].rejected # {} =>
            /\ subs[s].calls = <<>>
            /\ subs[s].pc = "failed"
            /\ subs[s].toast # <<>>
            /\ ~isGenerating

\* C4 witness: of two uploads the first succeeded and the second rejected.
C4_Witness ==
    \E s \in 1..Len(subs) :
        /\ Len(subs[s].files) = 2
        /\ subs[s].rejected = {2}
        /\ subs[s].values[1] # Pending
        /\ last.op = "uploadRejected"

\* C5: a submission whose k uploads all succeeded has invoked onGenerate
\* exactly once, with the prompt and with the k URLs in attachment order
\* (undefined when k = 0); while it is in flight its prompt is that of the
\* composer.  No submission invokes onGenerate twice.
C5_HandlerCalledOnceInOrder ==
    \A s \in 1..Len(subs) :
        LET sub == subs[s]
            k == Len(sub.files)
        IN  /\ Trim(sub.prompt) # <<>>
            /\ Len(sub.calls) <= 1
            /\ ~Returned(sub) => sub.prompt = prompt
            /\ (\A i \in 1..k : sub.values[i] # Pending) =>
                  /\ Len(sub.calls) = 1
                  /\ sub.calls[1].prompt = sub.prompt
                  /\ sub.calls[1].characterUrls =
                        IF k = 0 THEN None
                        ELSE Some([i \in 1..k |-> UrlOf(sub.files[i])])

\* C5 witness: two different attachments, the upload of the first completed
\* last, and the handler has been invoked.
C5_Witness ==
    \E s \in 1..Len(subs) :
        /\ Len(subs[s].files) = 2
        /\ subs[s].files[1] # subs[s].files[2]
        /\ Len(subs[s].calls) = 1
        /\ last = Did("uploadResolved", 0, 0)

\* C5 witness, no attachment: the handler was invoked with characterUrls
\* undefined.
C5_WitnessNoAttachment ==
    \E s \in 1..Len(subs) :
        /\ subs[s].files = <<>>
        /\ Len(subs[s].calls) = 1
        /\ subs[s].calls[1].characterUrls = None

C7_SettledMeansIdle ==
    (isOpen /\ InFlight(subs) = 0) => ~isGenerating

\* C8: a dismiss request while isGenerating is true does not invoke onClose
\* and changes neither isOpen nor the state of the composer; a dismiss
\* request while isGenerating is false invokes onClose.
C8_DismissRejectedInFlight ==
    [][last'.op = "handleOpenChange" =>
          IF isGenerating
          THEN /\ last'.out = 0
               /\ isOpen' = isOpen
               /\ UNCHANGED compState
          ELSE last'.out = 1]_vars

\* C8 witness: a dismiss request was rejected during a submission.
C8_Witness ==
    /\ last = Did("handleOpenChange", 0, 0)
    /\ isOpen
    /\ isGenerating
    /\ InFlight(subs) = 1

\* The state of the composer right after the reset of the open effect.
IsReset ==
    /\ prompt = (IF isRedrawMode THEN existingPrompt ELSE <<>>)
    /\ uploadedFiles = <<>>
    /\ previews = <<>>
    /\ showPreview = None
    /\ ~isGenerating

\* C9: opening resets the composer, and a continuation of work started
\* before the opening does not change the reset values afterwards.
C9_ResetSticks ==
    [][/\ last'.op = "open" => IsReset'
       /\ (last.op = "open" /\ last'.op \in AsyncOps) => IsReset']_vars

\* new is old without its position index (0-based), the rest in order; an
\* index past the end drops nothing.
DroppedAt(old, new, index) ==
    IF index \in 0..(Len(old) - 1)
    THEN /\ Len(new) = Len(old) - 1
         /\ \A j \in 1..Len(new) : new[j] = IF j <= index THEN old[j] ELSE old[j + 1]
    ELSE new = old

\* C10: removeFile(i) drops position i, where there is one, from the
\* attachments and from the previews, keeps the rest in order, closes the
\* viewer and leaves prompt and isGenerating alone.
C10_RemoveExactlyIndex ==
    [][last'.op = "removeFile" =>
          /\ DroppedAt(uploadedFiles, uploadedFiles', last'.arg)
          /\ DroppedAt(previews, previews', last'.arg)
          /\ showPreview' = None
          /\ UNCHANGED <<prompt, isGenerating>>]_vars

\* C10 witness: the first of two attachments was removed, with its preview.
C10_Witness ==
    /\ last = Did("removeFile", 0, 0)
    /\ uploadedFiles = <<"b">>
    /\ previews = <<generateFilePreview("b")>>

\* This step is the one in which submission s fails: its catch block runs.
FailsAt(s) ==
    /\ Len(subs') = Len(subs)
    /\ subs[s].pc # "failed"
    /\ subs'[s].pc = "failed"

\* This step starts a submission: a submit trigger has run handleGenerate
\* past its guard.
StartsSubmission ==
    /\ last'.op \in {"clickGenerate", "shortcut"}
    /\ last'.out = 1

\* The submission started by this step.
Started == subs'[Len(subs')]

\* C11, the draft: when a submission fails, prompt and attachments are those
\* it was submitted with, and no step taken while it was in flight changed
\* the previews (so that they are those shown before Submit).
C11_DraftKept ==
    /\ \A s \in 1..Len(subs) :
           FailsAt(s) => /\ prompt' = subs[s].prompt
                         /\ uploadedFiles' = subs[s].files
    /\ InFlight(subs) = 1 => previews' = previews

\* C11, the notification: the failing step surfaces exactly one notification,
\* with the message of the error or the generic fallback.
C11_OneNotification ==
    \A s \in 1..Len(subs) :
        FailsAt(s) => /\ subs[s].toast = <<>>
                      /\ Len(subs'[s].toast) = 1
                      /\ subs'[s].toast[1] \in {e.message : e \in {x \in Errors : x.isError}}
                                                \cup {Fallback}

\* C11, the retry: a submission starts with no URL and with one upload
\* outstanding per attachment, whatever an earlier submission obtained.
C11_RetryFromScratch ==
    StartsSubmission =>
        /\ Started.outstanding = 1..Len(uploadedFiles)
        /\ \A i \in 1..Len(uploadedFiles) : Started.values[i] = Pending
        /\ Started.files = uploadedFiles

\* C11: a failed submission (an upload or the handler rejected) leaves the
\* draft as it was before Submit (prompt, attachments, previews), surfaces
\* exactly one notification with the error's message or the fallback, retains
\* no uploaded URL, and a retry uploads every attachment again.
C11_FailedSubmissionKeepsDraft ==
    [][C11_DraftKept /\ C11_OneNotification /\ C11_RetryFromScratch]_vars

\* C12: while the submission state is in-flight no step changes the
\* attachment list, be it an add (a change event of the file input delivered
\* after Submit started) or a remove.
C12_AttachmentsFrozenInFlight ==
    [][(isGenerating /\ isGenerating') => uploadedFiles' = uploadedFiles]_vars

\* C13: the shortcut starts a submission only when the composer is open, not
\* in-flight and the trimmed prompt is non-empty; fired while the composer is
\* closed or a submission is in flight it starts nothing and changes nothing.
C13_ShortcutInert ==
    [][last'.op = "shortcut" =>
          /\ last'.out = 1 =>
                /\ isOpen /\ ~isGenerating /\ Trim(prompt) # <<>>
                /\ InFlight(subs') = InFlight(subs) + 1
          /\ (~isOpen \/ isGenerating) =>
                /\ last'.out = 0
                /\ InFlight(subs') = InFlight(subs)
                /\ Prune(subs') = Prune(subs)
                /\ UNCHANGED <<isOpen, compState, pickerOpen, batches>>]_vars

\* C13 witness: the shortcut was fired on a closed composer that still holds
\* a non-empty prompt, and nothing was submitted.
C13_Witness ==
    /\ last = Did("shortcut", 0, 0)
    /\ ~isOpen
    /\ ~isGenerating
    /\ Trim(prompt) # <<>>
    /\ subs = <<>>

\* C13 witness, the positive case: the shortcut started a submission.
C13_WitnessSubmitted ==
    /\ last = Did("shortcut", 0, 1)
    /\ isGenerating
    /\ InFlight(subs) = 1

\* The selections with what handleFiles records about each: the number of
\* valid candidates and the number of notifications (a table, computed once).
SelectionTable ==
    {<<newFiles, Len(ValidFilesOf(newFiles)), InvalidToasts(newFiles)>> :
        newFiles \in FileLists}

\* The selections whose change event this step can be.
Candidates ==
    {row[1] : row \in {r \in SelectionTable : r[2] = last'.arg /\ r[3] = last'.out}}

\* The positions of the candidates of a selection that fail validation.
InvalidAt(newFiles) ==
    {i \in 1..Len(newFiles) : ~validateFileForUpload(newFiles[i]).valid}

\* What a call of handleFiles with this selection must have done.
C14_Post(newFiles) ==
    LET valid == SelectSeq(newFiles, LAMBDA f : validateFileForUpload(f).valid)
        kept  == Min(2, Len(uploadedFiles) + Len(valid))
    IN  /\ last'.out = Cardinality(InvalidAt(newFiles))
        /\ previews' = previews
        /\ IF valid = <<>>
           THEN uploadedFiles' = uploadedFiles /\ batches' = batches
           ELSE /\ Len(uploadedFiles') = kept
                /\ \A i \in 1..kept :
                      uploadedFiles'[i] = (uploadedFiles \o valid)[i]
                /\ Len(batches') = Len(batches) + 1

C15_PromptOncePerMountAfterDelay ==
    /\ Len(prompts) <= 1
    /\ \A i \in 1..Len(prompts) :
          /\ prompts[i].mounted
          /\ prompts[i].at >= mountedAt + Delay
          /\ isProduction
          /\ googleClientId # None
    /\ ~mounted => timeout = None
    /\ (~mounted /\ cleared # None) => prompts = <<>>
    /\ ~Enabled => (timeout = None /\ prompts = <<>> /\ ~initialized)

\* C15 witness: the prompt was invoked, once, on a mounted widget.
C15_Witness ==
    /\ mounted
    /\ Len(prompts) = 1
    /\ prompts[1].at = mountedAt + Delay

\* C15 witness, teardown: the widget was torn down before its timer's
\* deadline, the deadline has passed and the prompt was not invoked, although
\* the script had loaded.
C15_WitnessTornDown ==
    /\ ~mounted
    /\ google
    /\ cleared # None
    /\ now >= cleared[1]
    /\ prompts = <<>>

\* C16: a call whose authentication or callback completion rejected has
\* navigated to '/', once, and has shown no error; a call whose
\* authentication rejected has not called the callback completion; a call
\* that did not fail has not navigated.
C16_ErrorsRedirectSilently ==
    \A c \in 1..Len(calls) :
        /\ calls[c].rejected # "none" => calls[c].pushes = <<"/">>
        /\ calls[c].rejected = "none" => calls[c].pushes = <<>>
        /\ calls[c].errors = <<>>
        /\ calls[c].rejected = "authenticate" => calls[c].handled = 0
        /\ calls[c].handled <= 1

\* C16 witness: one call failed at authentication, another at the callback
\* completion.
C16_Witness ==
    \E c, d \in 1..Len(calls) :
        /\ calls[c].rejected = "authenticate"
        /\ calls[d].rejected = "callback"
        /\ calls[d].handled = 1

\* C17: a call of handleFiles with at least one valid candidate stores the
\* first 2 entries of the previous attachments followed by the valid
\* candidates in selection order; an add keeps every attachment already
\* present at its position, and changes nothing when 2 are present.
C17_ExistingFirst ==
    [][last'.op = "handleFiles" =>
             /\ \A newFiles \in Candidates :
                   LET valid == SelectSeq(newFiles,
                                          LAMBDA f : validateFileForUpload(f).valid)
                       all   == uploadedFiles \o valid
                   IN  (OnFileInputChange(newFiles) /\ valid # <<>>) =>
                           uploadedFiles' = SubSeq(all, 1, Min(2, Len(all)))
             /\ Len(uploadedFiles') >= Len(uploadedFiles)
             /\ \A i \in 1..Len(uploadedFiles) : uploadedFiles'[i] = uploadedFiles[i]
             /\ Len(uploadedFiles) = 2 => uploadedFiles' = uploadedFiles]_vars

\* C17 witness: "a" was attached, with its preview; a call offered two valid
\* candidates and the list is "a" followed by the first of them.
C17_Witness ==
    /\ last = Did("handleFiles", 2, 0)
    /\ uploadedFiles = <<"a", "b">>
    /\ previews = <<generateFilePreview("a")>>

\* C17 witness, full list (SpecChooser): a submission took the attachments
\* "a", "b"; a change event with one valid candidate arrived while it was in
\* flight and the list is still "a", "b".
C17_WitnessFull ==
    /\ last = Did("handleFiles", 1, 0)
    /\ isGenerating
    /\ InFlight(subs) = 1
    /\ subs[1].files = <<"a", "b">>
    /\ uploadedFiles = <<"a", "b">>

\* C18: a submission sets the state to in-flight and starts one upload per
\* attachment of that moment; no upload is started later (a failed one is
\* not retried); the handler is invoked at most once, and only when every
\* upload has resolved and none has rejected.
C18_UploadsThenHandler ==
    [][/\ StartsSubmission =>
             /\ isGenerating'
             /\ Started.files = uploadedFiles
             /\ Started.outstanding = 1..Len(uploadedFiles)
             /\ Len(Started.values) = Len(uploadedFiles)
             /\ Started.rejected = {}
             /\ Len(uploadedFiles) > 0 => Started.calls = <<>>
       /\ last'.op \in AsyncOps =>
             \A s \in 1..Len(subs) :
                 /\ subs'[s].outstanding \subseteq subs[s].outstanding
                 /\ subs[s].rejected \subseteq subs'[s].rejected
                 /\ subs'[s].files = subs[s].files
       /\ \A s \in 1..Len(subs') :
             subs'[s].calls # <<>> =>
                 /\ Len(subs'[s].calls) = 1
                 /\ subs'[s].outstanding = {}
                 /\ subs'[s].rejected = {}
                 /\ \A i \in 1..Len(subs'[s].files) : subs'[s].values[i] # Pending]_vars

\* C18 witness: of two uploads the second resolved last, and that step
\* invoked the handler.
C18_Witness ==
    /\ last = Did("uploadResolved", 1, 0)
    /\ \E s \in 1..Len(subs) :
          /\ Len(subs[s].files) = 2
          /\ subs[s].pc = "handler"
          /\ Len(subs[s].calls) = 1

\* C18 witness, no retry: the first of two uploads rejected, the second is
\* still outstanding, and nothing is uploading the first again.
C18_WitnessNoRetry ==
    \E s \in 1..Len(subs) :
        /\ subs[s].rejected = {1}
        /\ subs[s].outstanding = {2}
        /\ subs[s].calls = <<>>

\* C19: whenever the submission state is idle, no upload started by a
\* submission is still outstanding.
C19_IdleMeansNoUploadOutstanding ==
    ~isGenerating => \A s \in 1..Len(subs) : subs[s].outstanding = {}

\* C20: in every reachable state previews holds at most 2 entries, and the
\* full-size viewer is displayed only when showPreview is the index of an
\* existing entry of previews.
C20_PreviewsBoundedViewerGuarded ==
    /\ Len(previews) <= 2
    /\ ViewerShown => /\ showPreview # None
                      /\ showPreview[1] >= 0
                      /\ showPreview[1] < Len(previews)

\* C20 witness: the index of the viewer outlived its preview (a later batch
\* brought fewer previews), and the viewer is not displayed.
C20_Witness ==
    /\ showPreview # None
    /\ showPreview[1] >= Len(previews)
    /\ Len(previews) > 0
    /\ ~ViewerShown

====
